---- MODULE Spec2Model ----
(***************************************************************************)
(* A model of coherent_rates/system.py: the periodic potential, the Bloch  *)
(* wavefunctions and Hamiltonian, the time evolution, the initial states   *)
(* and the gaussian fit.                                                   *)
(*                                                                         *)
(* Every function of system.py is a call that runs to completion, so each  *)
(* is one action.  The variables hold the objects of the caller (system,   *)
(* config), the last call (op, args), what it returned or raised (ret) and *)
(* the calls it made to its collaborators (calls).                         *)
(*                                                                         *)
(* Numbers.  Physical quantities are kept exact:                           *)
(*  - a real amplitude vector is a record [data, num, den] standing for    *)
(*    data[i] * sqrt(num/den), data[i] an integer (so 1/sqrt(n) and        *)
(*    sqrt(resolution/3) are exact);                                       *)
(*  - a complex amplitude is a pair <<re, im>> of integers and the phase   *)
(*    exp(-i E t / hbar) is taken on grids where E t / hbar is a multiple  *)
(*    of pi/2, so that it is a power of -i;                                *)
(*  - energies, lengths and masses are integers in arbitrary units.        *)
(***************************************************************************)
EXTENDS Integers, Sequences, FiniteSets, TLC

VARIABLES system, config, op, args, ret, calls, lastPotential, heap

vars == <<system, config, op, args, ret, calls, lastPotential, heap>>

-----------------------------------------------------------------------------
(* Bounds of the model *)

MaxBarrier == 1
MaxLattice == 1
MaxShape == 2
MaxResolution == 4
MaxBands == 2
FractionBits == 2
MaxTimes == 2
MaxFitValue == 2
MaxNarrowBits == 6

Ids == {"HNi", "NaCu"}

Masses == {1, 2}

Temperatures == {155}

(* PeriodicSystem: id, barrier_energy, lattice_constant, mass *)
Systems ==
    [id : Ids, barrier_energy : 0..MaxBarrier,
     lattice_constant : 1..MaxLattice, mass : Masses]

(* PeriodicSystemConfig: shape, resolution, n_bands, temperature.  The     *)
(* dataclass checks nothing, so a size of zero can be passed.              *)
Configs ==
    [shape : 0..MaxShape, resolution : 0..MaxResolution,
     n_bands : 1..MaxBands, temperature : Temperatures]

-----------------------------------------------------------------------------
(* Helpers: sequences and exact numbers *)

Min(a, b) == IF a <= b THEN a ELSE b

Abs(x) == IF x < 0 THEN -x ELSE x

Sign(x) == IF x < 0 THEN -1 ELSE IF x = 0 THEN 0 ELSE 1

RECURSIVE SumSeq(_)
SumSeq(s) == IF s = <<>> THEN 0 ELSE Head(s) + SumSeq(Tail(s))

(* the value of a scaled vector at i, as the pair (sign, square) with the  *)
(* square a fraction: two scaled vectors hold the same numbers iff these   *)
(* agree                                                                   *)
SameValue(a, i, b, j) ==
    /\ Sign(a.data[i]) = Sign(b.data[j])
    /\ a.data[i] * a.data[i] * a.num * b.den
         = b.data[j] * b.data[j] * b.num * a.den

SameValues(a, b) ==
    /\ Len(a.data) = Len(b.data)
    /\ \A i \in 1..Len(a.data) : SameValue(a, i, b, i)

-----------------------------------------------------------------------------
(* Potential builder *)

(* the number of plane waves of the bare potential *)
PotentialN == 3

(* FundamentalTransformedPositionBasis1d(delta_x, n): n plane waves, all   *)
(* kept.  delta_x is the pair (a, b) standing for a * sqrt(3) / b.         *)
FundamentalTransformedPositionBasis(delta_x, n) ==
    [kind |-> "momentum", delta_x |-> delta_x, n |-> n, fundamental_n |-> n]

(* TransformedPositionBasis1d(delta_x, n, fundamental_n): the n lowest of  *)
(* fundamental_n plane waves                                               *)
TransformedPositionBasis(delta_x, n, fundamental_n) ==
    [kind |-> "momentum", delta_x |-> delta_x, n |-> n,
     fundamental_n |-> fundamental_n]

(* get_potential with a hidden dependence on the mass *)
get_potential_mass(s) ==
    [basis |-> FundamentalTransformedPositionBasis(
                   <<s.lattice_constant, 2>>, PotentialN),
     data |-> <<2 * s.barrier_energy * s.mass, -s.barrier_energy * s.mass,
                -s.barrier_energy * s.mass>>,
     num |-> 3, den |-> 16]

(* get_potential: delta_x = sqrt(3) * lattice_constant / 2 and             *)
(* vector = 0.25 * barrier_energy * [2, -1, -1] * sqrt(3), kept here as    *)
(* barrier_energy * [2, -1, -1] * sqrt(3/16)                               *)
get_potential(s) ==
    [basis |-> FundamentalTransformedPositionBasis(
                   <<s.lattice_constant, 2>>, PotentialN),
     data |-> <<2 * s.barrier_energy, -s.barrier_energy, -s.barrier_energy>>,
     num |-> 3, den |-> 16]

(* pad_ft_points: the coefficients of n plane waves (frequencies 0, 1, ..  *)
(* then .., -1) written over s plane waves: the frequencies both hold are  *)
(* copied, the others are zero (padding) or dropped (truncation)           *)
pad_ft_points(data, s) ==
    LET n == Len(data)
        nPos == IF n = 0 \/ s = 0 THEN 0
                ELSE 1 + Min((n - 1) \div 2, (s - 1) \div 2)
        nNeg == Min(n \div 2, s \div 2)
    IN  [i \in 1..s |->
            IF i <= nPos THEN data[i]
            ELSE IF i > s - nNeg /\ s - nNeg >= nPos THEN data[n - (s - i)]
            ELSE 0]

(* stacked_basis_as_fundamental_momentum_basis *)
stacked_basis_as_fundamental_momentum_basis(basis) ==
    FundamentalTransformedPositionBasis(basis.delta_x, basis.fundamental_n)

(* convert_potential_to_basis between plane-wave bases: the coefficients   *)
(* are moved to the plane waves of the new basis and are not rescaled      *)
convert_potential_to_basis(potential, basis) ==
    [basis |-> basis,
     data |-> pad_ft_points(pad_ft_points(potential.data,
                                          potential.basis.fundamental_n),
                            basis.n),
     num |-> potential.num, den |-> potential.den]

(* get_interpolated_potential without the rescaling of the coefficients *)
get_interpolated_potential_unscaled(s, resolution) ==
    LET potential == get_potential(s)
        old == potential.basis
        basis == TransformedPositionBasis(old.delta_x, old.n, resolution)
    IN  convert_potential_to_basis(
            [basis |-> basis, data |-> potential.data,
             num |-> potential.num, den |-> potential.den],
            stacked_basis_as_fundamental_momentum_basis(basis))

(* get_interpolated_potential: the potential on the resolution[0] lowest   *)
(* plane waves, its coefficients multiplied by sqrt(resolution[0] / 3)     *)
get_interpolated_potential(s, resolution) ==
    LET potential == get_potential(s)
        old == potential.basis
        basis == TransformedPositionBasis(old.delta_x, old.n, resolution)
        scaled_potential ==
            [basis |-> basis, data |-> potential.data,
             num |-> potential.num * resolution,
             den |-> potential.den * old.n]
    IN  convert_potential_to_basis(
            scaled_potential, stacked_basis_as_fundamental_momentum_basis(basis))

(* EvenlySpacedTransformedPositionBasis(delta_x, n, step, offset): every   *)
(* step-th of n * step plane waves.  delta_x is (a, b) for a * sqrt(3) / b *)
EvenlySpacedTransformedPositionBasis(delta_x, n, step, offset) ==
    [kind |-> "momentum", delta_x |-> delta_x, n |-> n, step |-> step,
     offset |-> offset, fundamental_n |-> n * step]

(* The basis of shape[0] repeats is built by the class                     *)
(* EvenlySpacedTransformedPositionBasis of surface_potential_analysis.     *)
(* system.py passes it step = shape[0] unchecked; whether the class raises *)
(* for a step of 0 is decided outside this repository, so both outcomes    *)
(* are followed.                                                           *)
ZeroStepOutcomes(shape, resolution) ==
    IF shape = 0 /\ resolution # 0 THEN BOOLEAN ELSE {FALSE}

(* the construction of the basis, when its outcome is open *)
basis_calls(shape, resolution, rejected) ==
    IF shape = 0 /\ resolution # 0
    THEN <<[fn |-> "EvenlySpacedTransformedPositionBasis", step |-> shape,
            raised |-> rejected]>>
    ELSE <<>>

(* what get_extended_interpolated_potential raises, "" when it returns:    *)
(* basis.fundamental_n / old.n divides by zero for a resolution of 0; for  *)
(* a shape of 0 system.py raises nothing itself and the basis class        *)
(* decides (rejected)                                                      *)
extended_potential_error(shape, resolution, rejected) ==
    IF resolution = 0 THEN "ZeroDivisionError"
    ELSE IF shape = 0 /\ rejected THEN "AssertionError"
    ELSE ""

(* get_extended_interpolated_potential: the interpolated potential on      *)
(* shape[0] cells, multiplied by sqrt(fundamental_n / old.n)               *)
get_extended_interpolated_potential(s, shape, resolution) ==
    LET interpolated == get_interpolated_potential(s, resolution)
        old == interpolated.basis
        basis == EvenlySpacedTransformedPositionBasis(
                     <<old.delta_x[1] * shape, old.delta_x[2]>>,
                     old.n, shape, 0)
    IN  [basis |-> basis, data |-> interpolated.data,
         num |-> interpolated.num * basis.fundamental_n,
         den |-> interpolated.den * old.n]

(* FundamentalPositionBasis(delta_x, n): n sites *)
FundamentalPositionBasis(delta_x, n) ==
    [kind |-> "position", delta_x |-> delta_x, n |-> n, fundamental_n |-> n]

(* stacked_basis_as_fundamental_position_basis *)
stacked_basis_as_fundamental_position_basis(basis) ==
    FundamentalPositionBasis(basis.delta_x, basis.fundamental_n)

-----------------------------------------------------------------------------
(* Results of a call *)

Ok(v) == [status |-> "ok", value |-> v]

Raise(e) == [status |-> "error", error |-> e]

NoResult == [status |-> "none"]

NoPotential == [called |-> FALSE]

(* what is remembered of the get_potential call before the one for system  *)
(* s: its result, when it was made with the same barrier_energy and        *)
(* lattice_constant, and whether its system was another one (id or mass)   *)
PotentialBefore(last, s) ==
    IF /\ last.called
       /\ last.system.barrier_energy = s.barrier_energy
       /\ last.system.lattice_constant = s.lattice_constant
    THEN [seen |-> TRUE, value |-> last.value,
          other_system |-> last.system # s]
    ELSE [seen |-> FALSE]

Returned(name) == op = name /\ ret.status = "ok"

Raised(name) == op = name /\ ret.status = "error"

-----------------------------------------------------------------------------
(* The objects that outlive a call *)

(* the preset HYDROGEN_NICKEL_SYSTEM, in the units of the model *)
HYDROGEN_NICKEL_SYSTEM ==
    [id |-> "HNi", barrier_energy |-> 1, lattice_constant |-> 1, mass |-> 1]

(* the preset SODIUM_COPPER_SYSTEM, in the units of the model *)
SODIUM_COPPER_SYSTEM ==
    [id |-> "NaCu", barrier_energy |-> 1, lattice_constant |-> 2, mass |-> 2]

(* the preset LITHIUM_COPPER_SYSTEM, in the units of the model *)
LITHIUM_COPPER_SYSTEM ==
    [id |-> "LiCu", barrier_energy |-> 1, lattice_constant |-> 2, mass |-> 1]

(* the names system.py binds at module level to objects a call could write *)
Presets ==
    [HYDROGEN_NICKEL_SYSTEM |-> HYDROGEN_NICKEL_SYSTEM,
     SODIUM_COPPER_SYSTEM |-> SODIUM_COPPER_SYSTEM,
     LITHIUM_COPPER_SYSTEM |-> LITHIUM_COPPER_SYSTEM]

PresetNames == DOMAIN Presets

(* no array is passed to the running call *)
NoObject == [passed |-> FALSE]

(* an initial_state or values the caller passes by reference *)
Passed(object) == [passed |-> TRUE, object |-> object]

(* a function that rebinds a preset to a copy with no barrier *)
call_effect_rebind(h, object) ==
    [presets |-> [h.presets EXCEPT !.HYDROGEN_NICKEL_SYSTEM =
                      [@ EXCEPT !.barrier_energy = 0]],
     passed |-> object]

(* What a call leaves of the module and of the object passed to it: no     *)
(* function of system.py has a global statement, assigns an attribute of   *)
(* its system or config, or assigns an element of initial_state or values; *)
(* the arrays it writes (np.zeros, np.exp, the products) are its own       *)
call_effect(h, object) == [presets |-> h.presets, passed |-> object]

-----------------------------------------------------------------------------
(* The state after construction and the caller *)

Init ==
    /\ system \in Systems
    /\ config \in Configs
    /\ op = "none"
    /\ args = <<>>
    /\ ret = NoResult
    /\ calls = <<>>
    /\ lastPotential = NoPotential
    /\ heap = [presets |-> Presets, passed |-> NoObject]

(* no call is running and none is waiting to be read *)
Idle == op = "none"

(* the caller has read what the last call returned or raised *)
Return ==
    /\ ~Idle
    /\ op' = "none"
    /\ args' = <<>>
    /\ ret' = NoResult
    /\ calls' = <<>>
    /\ heap' = [heap EXCEPT !.passed = NoObject]
    /\ UNCHANGED <<system, config, lastPotential>>

(* the caller takes another system for its next calls *)
NewSystem ==
    /\ Idle
    /\ system' \in Systems
    /\ op' = "none"
    /\ args' = <<>>
    /\ ret' = NoResult
    /\ calls' = <<>>
    /\ UNCHANGED <<config, lastPotential, heap>>

(* the caller takes another config for its next calls *)
NewConfig ==
    /\ Idle
    /\ config' \in Configs
    /\ op' = "none"
    /\ args' = <<>>
    /\ ret' = NoResult
    /\ calls' = <<>>
    /\ UNCHANGED <<system, lastPotential, heap>>

-----------------------------------------------------------------------------
(* The calls of the potential builder *)

GetPotential ==
    /\ Idle
    /\ op' = "get_potential"
    /\ args' = <<>>
    /\ ret' = Ok(get_potential(system))
    /\ calls' = <<>>
    /\ lastPotential' =
           [called |-> TRUE, system |-> system,
            value |-> get_potential(system),
            before |-> PotentialBefore(lastPotential, system)]
    /\ heap' = call_effect(heap, NoObject)
    /\ UNCHANGED <<system, config>>

GetInterpolatedPotential ==
    /\ Idle
    /\ op' = "get_interpolated_potential"
    /\ args' = [resolution |-> config.resolution]
    /\ ret' = Ok(get_interpolated_potential(system, config.resolution))
    /\ calls' = <<>>
    /\ heap' = call_effect(heap, NoObject)
    /\ UNCHANGED <<system, config, lastPotential>>

GetExtendedInterpolatedPotential ==
    /\ Idle
    /\ op' = "get_extended_interpolated_potential"
    /\ args' = [shape |-> config.shape, resolution |-> config.resolution]
    /\ \E rejected \in ZeroStepOutcomes(config.shape, config.resolution) :
         /\ ret' = LET e == extended_potential_error(
                                config.shape, config.resolution, rejected)
                   IN  IF e # "" THEN Raise(e)
                       ELSE Ok(get_extended_interpolated_potential(
                                   system, config.shape, config.resolution))
         /\ calls' = basis_calls(config.shape, config.resolution, rejected)
    /\ heap' = call_effect(heap, NoObject)
    /\ UNCHANGED <<system, config, lastPotential>>

NextPotential ==
    \/ NewSystem
    \/ NewConfig
    \/ Return
    \/ GetPotential
    \/ GetInterpolatedPotential
    \/ GetExtendedInterpolatedPotential

SpecPotential == Init /\ [][NextPotential]_vars

-----------------------------------------------------------------------------
(* State sampler *)

RECURSIVE Pow2(_)
Pow2(k) == IF k = 0 THEN 1 ELSE 2 * Pow2(k - 1)

(* a fraction is the record (p, q) for the float p / q, q a power of two   *)
(* so that the float holds it exactly, or None                             *)
Fraction(p, q) == [is_none |-> FALSE, p |-> p, q |-> q]

None == [is_none |-> TRUE, p |-> 0, q |-> 1]

StepFractions ==
    {None} \cup {Fraction(p, Pow2(FractionBits)) :
                     p \in 0..(Pow2(FractionBits) + 1)}

GaussianFractions ==
    {Fraction(1, Pow2(k)) : k \in 0..MaxNarrowBits} \cup {Fraction(2, 1)}

(* int(fraction * n) for a fraction p / q >= 0 *)
IntOfProduct(fraction, n) == (fraction.p * n) \div fraction.q

(* get_step_state after the basis is built: zeros(basis.n), then the first *)
(* n_non_zero entries are set to 1 / sqrt(n_non_zero); writing past the    *)
(* end of the array raises IndexError *)
step_state_data(basis, fraction) ==
    LET n_non_zero == IF fraction.is_none THEN 1
                      ELSE IntOfProduct(fraction, basis.n)
    IN  IF n_non_zero > basis.n THEN Raise("IndexError")
        ELSE Ok([basis |-> basis,
                 data |-> [i \in 1..basis.n |-> IF i <= n_non_zero THEN 1 ELSE 0],
                 num |-> 1,
                 den |-> IF n_non_zero = 0 THEN 1 ELSE n_non_zero])

(* get_step_state *)
get_step_state(s, c, fraction, rejected) ==
    LET e == extended_potential_error(c.shape, c.resolution, rejected)
        potential == get_extended_interpolated_potential(s, c.shape, c.resolution)
        basis == stacked_basis_as_fundamental_position_basis(potential.basis)
    IN  IF e # "" THEN Raise(e) ELSE step_state_data(basis, fraction)

(* the sum of the squares of a scaled vector is SquaredNorm[1] / [2] *)
SquaredNorm(v) ==
    <<SumSeq([i \in 1..Len(v.data) |-> v.data[i] * v.data[i]]) * v.num, v.den>>

(* np.exp(-x) is 0.0 for every x above this (the smallest float64 is       *)
(* about exp(-745.13))                                                     *)
ExpUnderflow == 745

(* the exponent of site i (from 0) of the gaussian, as the fraction        *)
(* x[1] / x[2] with data[i] = exp(-x): x = (i - size/2)^2 / (2 width^2),   *)
(* width = size * fraction                                                 *)
gaussian_exponent(size, fraction, i) ==
    <<(2 * i - size) * (2 * i - size) * fraction.q * fraction.q,
      8 * size * size * fraction.p * fraction.p>>

(* np.exp(-x) underflows to 0.0 *)
ExpIsZero(x) == x[1] > ExpUnderflow * x[2]

(* abs(exp(-x))^2 = exp(-2x) underflows to 0.0 *)
SquareIsZero(x) == 2 * x[1] > ExpUnderflow * x[2]

(* get_gaussian_state after the basis is built: data[i] = exp(-x_i), then  *)
(* data / sqrt(calculate_normalization(data)), the normalization being the *)
(* sum of abs(data[i])^2.  Each entry is kept as its exponent and what the *)
(* float is: "finite" for exp(-x_i) / sqrt(sum), "zero", or "nan" and      *)
(* "inf" for 0.0 / 0.0 and a / 0.0 when the sum is 0.0                     *)
gaussian_state_data(basis, fraction) ==
    LET size == basis.n
        x == [i \in 1..size |-> gaussian_exponent(size, fraction, i - 1)]
        sum_is_zero == \A i \in 1..size : SquareIsZero(x[i])
    IN  [basis |-> basis,
         data |-> [i \in 1..size |->
                     [x |-> x[i],
                      float |-> IF sum_is_zero
                                THEN (IF ExpIsZero(x[i]) THEN "nan" ELSE "inf")
                                ELSE (IF ExpIsZero(x[i]) THEN "zero" ELSE "finite")]],
         normalization_is_zero |-> sum_is_zero]

(* get_gaussian_state *)
get_gaussian_state(s, c, fraction, rejected) ==
    LET e == extended_potential_error(c.shape, c.resolution, rejected)
        potential == get_extended_interpolated_potential(s, c.shape, c.resolution)
        basis == stacked_basis_as_fundamental_position_basis(potential.basis)
    IN  IF e # "" THEN Raise(e) ELSE Ok(gaussian_state_data(basis, fraction))

GetStepState ==
    \E fraction \in StepFractions,
       rejected \in ZeroStepOutcomes(config.shape, config.resolution) :
        /\ Idle
        /\ op' = "get_step_state"
        /\ args' = [fraction |-> fraction]
        /\ ret' = get_step_state(system, config, fraction, rejected)
        /\ calls' = basis_calls(config.shape, config.resolution, rejected)
        /\ heap' = call_effect(heap, NoObject)
        /\ UNCHANGED <<system, config, lastPotential>>

GetGaussianState ==
    \E fraction \in GaussianFractions,
       rejected \in ZeroStepOutcomes(config.shape, config.resolution) :
        /\ Idle
        /\ op' = "get_gaussian_state"
        /\ args' = [fraction |-> fraction]
        /\ ret' = get_gaussian_state(system, config, fraction, rejected)
        /\ calls' = basis_calls(config.shape, config.resolution, rejected)
        /\ heap' = call_effect(heap, NoObject)
        /\ UNCHANGED <<system, config, lastPotential>>

NextStates ==
    \/ NewSystem
    \/ NewConfig
    \/ Return
    \/ GetStepState
    \/ GetGaussianState

SpecStates == Init /\ [][NextStates]_vars

-----------------------------------------------------------------------------
(* Bloch wavefunctions and Hamiltonian *)

(* _get_full_hamiltonian: the potential on shape[0] cells in the position  *)
(* basis, with the kinetic energy of the mass at the bloch fraction (the   *)
(* pair (s, n) for s / n)                                                  *)
get_full_hamiltonian(s, shape, resolution, bloch_fraction) ==
    LET potential == get_extended_interpolated_potential(s, shape, resolution)
    IN  [basis |-> stacked_basis_as_fundamental_position_basis(potential.basis),
         potential |-> potential, mass |-> s.mass,
         bloch_fraction |-> bloch_fraction]

(* EvenlySpacedBasis(n, step, offset) *)
EvenlySpacedBasis(n, step, offset) == [n |-> n, step |-> step, offset |-> offset]

(* fundamental_stacked_basis_from_shape *)
fundamental_stacked_basis_from_shape(shape) == [kind |-> "fundamental", n |-> shape]

(* the arguments hamiltonian_generator passes to _get_full_hamiltonian for *)
(* the sample at a bloch fraction                                          *)
hamiltonian_generator(c, bloch_fraction) ==
    [shape |-> 1, resolution |-> c.resolution, bloch_fraction |-> bloch_fraction]

(* the energy of a band of a Bloch Hamiltonian, in units in which the      *)
(* phases of the evolution are quarter turns: the bands are numbered by    *)
(* increasing energy                                                       *)
band_energy(h, band) ==
    LET k == band * h.bloch_fraction[2] + h.bloch_fraction[1]
    IN  k * k

(* the eigenstates generate_wavepacket keeps: for every band of save_bands *)
(* and every sample of list_basis, bands first                             *)
generate_wavepacket(s, c, save_bands, list_basis) ==
    [basis |-> <<save_bands, list_basis>>,
     states |->
        [k \in 1..(save_bands.n * list_basis.n) |->
            LET sample == (k - 1) % list_basis.n
                band == save_bands.offset
                          + save_bands.step * ((k - 1) \div list_basis.n)
                a == hamiltonian_generator(c, <<sample, list_basis.n>>)
                h == get_full_hamiltonian(s, a.shape, a.resolution,
                                          a.bloch_fraction)
            IN  [band |-> band, sample |-> sample, cell |-> a,
                 eigenvalue |-> band_energy(h, band)]]]

(* what get_bloch_wavefunctions raises, "" when it returns: the potential  *)
(* of the first sample raises for a resolution of 0, and a Hamiltonian of  *)
(* resolution[0] sites has no more than resolution[0] bands                *)
bloch_error(c) ==
    IF c.shape = 0 THEN ""
    ELSE IF extended_potential_error(1, c.resolution, FALSE) # ""
    THEN extended_potential_error(1, c.resolution, FALSE)
    ELSE IF c.n_bands > c.resolution THEN "ValueError"
    ELSE ""

(* the calls of hamiltonian_generator made by get_bloch_wavefunctions: one *)
(* per sample, up to the one that raises                                   *)
hamiltonian_calls(c) ==
    [i \in 1..(IF bloch_error(c) # "" THEN 1 ELSE c.shape) |->
        hamiltonian_generator(c, <<i - 1, c.shape>>)]

(* get_bloch_wavefunctions keeping the bands 1..n_bands *)
get_bloch_wavefunctions_skip_lowest(s, c) ==
    generate_wavepacket(s, c, EvenlySpacedBasis(c.n_bands, 1, 1),
                        fundamental_stacked_basis_from_shape(c.shape))

(* get_bloch_wavefunctions *)
get_bloch_wavefunctions(s, c) ==
    generate_wavepacket(s, c, EvenlySpacedBasis(c.n_bands, 1, 0),
                        fundamental_stacked_basis_from_shape(c.shape))

(* get_full_bloch_hamiltonian: the diagonal operator of the eigenvalues in *)
(* the explicit basis of the eigenstates kept                              *)
get_full_bloch_hamiltonian(wavefunctions) ==
    [basis |-> [kind |-> "explicit", n |-> Len(wavefunctions.states),
                vectors |-> [k \in 1..Len(wavefunctions.states) |->
                                <<wavefunctions.states[k].band,
                                  wavefunctions.states[k].sample>>],
                samples |-> wavefunctions.basis[2].n],
     data |-> [k \in 1..Len(wavefunctions.states) |->
                  wavefunctions.states[k].eigenvalue]]

(* get_hamiltonian *)
get_hamiltonian(s, c) == get_full_bloch_hamiltonian(get_bloch_wavefunctions(s, c))

GetBlochWavefunctions ==
    /\ Idle
    /\ op' = "get_bloch_wavefunctions"
    /\ args' = <<>>
    /\ ret' = IF bloch_error(config) # "" THEN Raise(bloch_error(config))
              ELSE Ok(get_bloch_wavefunctions(system, config))
    /\ calls' = hamiltonian_calls(config)
    /\ heap' = call_effect(heap, NoObject)
    /\ UNCHANGED <<system, config, lastPotential>>

GetHamiltonian ==
    /\ Idle
    /\ op' = "get_hamiltonian"
    /\ args' = <<>>
    /\ ret' = IF bloch_error(config) # "" THEN Raise(bloch_error(config))
              ELSE Ok(get_hamiltonian(system, config))
    /\ calls' = hamiltonian_calls(config)
    /\ heap' = call_effect(heap, NoObject)
    /\ UNCHANGED <<system, config, lastPotential>>

-----------------------------------------------------------------------------
(* Time evolution *)

(* complex numbers are pairs (re, im) of integers *)
CMul(a, b) == <<a[1] * b[1] - a[2] * b[2], a[1] * b[2] + a[2] * b[1]>>

CAbs2(a) == a[1] * a[1] + a[2] * a[2]

(* exp(-i k pi / 2) *)
QuarterPhase(k) == <<<<1, 0>>, <<0, -1>>, <<-1, 0>>, <<0, 1>>>>[(k % 4) + 1]

(* 1 - i k pi / 2 up to the unit: the first-order step of the exponential  *)
EulerPhase(k) == <<1, -(k % 4)>>

(* EvenlySpacedTimeBasis(n, step, offset, delta_t) *)
EvenlySpacedTimeBasis(n, step, offset) ==
    [n |-> n, step |-> step, offset |-> offset]

TimeOffsets == {-1, 0, 1}

TimeSteps == {1, 2}

TimeGrids ==
    {EvenlySpacedTimeBasis(n, step, offset) :
        n \in 1..MaxTimes, step \in TimeSteps, offset \in TimeOffsets}

(* times.times, in units of the fundamental time step *)
Times(times) == [i \in 1..times.n |-> times.offset + times.step * (i - 1)]

(* A state over the N sites of the super cell is given by its N            *)
(* coordinates over the complete orthonormal set of Bloch eigenstates      *)
(* (all resolution[0] bands of all shape[0] samples, bands first): the     *)
(* change of coordinates from the sites is unitary.  The state is          *)
(* bloch[k] / sqrt(den).                                                   *)
UnitVector(n, k) == [j \in 1..n |-> IF j = k THEN <<1, 0>> ELSE <<0, 0>>]

PairVector(n, k) ==
    [j \in 1..n |-> IF j = k THEN <<1, 0>>
                    ELSE IF j = n THEN <<0, 1>> ELSE <<0, 0>>]

InitialStates(basis) ==
    {[basis |-> basis, bloch |-> UnitVector(basis.n, k), den |-> 1] :
        k \in 1..basis.n}
    \cup {[basis |-> basis, bloch |-> PairVector(basis.n, k), den |-> 2] :
        k \in 1..(basis.n - 1)}

(* the position basis of the states of a config *)
StateBasis(s, c) ==
    stacked_basis_as_fundamental_position_basis(
        get_extended_interpolated_potential(s, c.shape, c.resolution).basis)

(* convert_state_vector_to_basis into the explicit basis: the inner        *)
(* products with the eigenstates kept, that is the coordinates of the      *)
(* state over them                                                         *)
convert_state_vector_to_basis(state, basis) ==
    [basis |-> basis,
     data |-> [k \in 1..basis.n |->
                  state.bloch[basis.vectors[k][1] * basis.samples
                                + basis.vectors[k][2] + 1]],
     den |-> state.den]

(* solve_schrodinger_equation_diagonal with a first-order step in place of *)
(* the phase                                                               *)
solve_schrodinger_equation_diagonal_euler(initial_state, times, hamiltonian) ==
    LET converted == convert_state_vector_to_basis(initial_state, hamiltonian.basis)
    IN  [basis |-> <<times, hamiltonian.basis>>,
         data |-> [i \in 1..times.n |->
                     [k \in 1..hamiltonian.basis.n |->
                         CMul(converted.data[k],
                              EulerPhase(hamiltonian.data[k] * Times(times)[i]))]],
         den |-> converted.den]

(* solve_schrodinger_equation_diagonal with the times taken one step late *)
solve_schrodinger_equation_diagonal_late(initial_state, times, hamiltonian) ==
    LET converted == convert_state_vector_to_basis(initial_state, hamiltonian.basis)
    IN  [basis |-> <<times, hamiltonian.basis>>,
         data |-> [i \in 1..times.n |->
                     [k \in 1..hamiltonian.basis.n |->
                         CMul(converted.data[k],
                              QuarterPhase(hamiltonian.data[k]
                                  * (Times(times)[i] + times.step)))]],
         den |-> converted.den]

(* solve_schrodinger_equation_diagonal: the state in the basis of the      *)
(* Hamiltonian, each coefficient multiplied by exp(-i E t / hbar) for      *)
(* every time                                                              *)
solve_schrodinger_equation_diagonal(initial_state, times, hamiltonian) ==
    LET converted == convert_state_vector_to_basis(initial_state, hamiltonian.basis)
    IN  [basis |-> <<times, hamiltonian.basis>>,
         data |-> [i \in 1..times.n |->
                     [k \in 1..hamiltonian.basis.n |->
                         CMul(converted.data[k],
                              QuarterPhase(hamiltonian.data[k] * Times(times)[i]))]],
         den |-> converted.den]

(* solve_schrodinger_equation *)
solve_schrodinger_equation(s, c, initial_state, times) ==
    IF bloch_error(c) # "" THEN Raise(bloch_error(c))
    ELSE Ok(solve_schrodinger_equation_diagonal(
                initial_state, times, get_hamiltonian(s, c)))

SolveSchrodingerEquation ==
    \E initial_state \in InitialStates(StateBasis(system, config)),
       times \in TimeGrids :
        /\ Idle
        /\ op' = "solve_schrodinger_equation"
        /\ args' = [initial_state |-> initial_state, times |-> times]
        /\ ret' = solve_schrodinger_equation(system, config, initial_state, times)
        /\ calls' = hamiltonian_calls(config)
        /\ heap' = call_effect(heap, Passed(initial_state))
        /\ UNCHANGED <<system, config, lastPotential>>

NextDynamics ==
    \/ NewSystem
    \/ NewConfig
    \/ Return
    \/ GetBlochWavefunctions
    \/ GetHamiltonian
    \/ SolveSchrodingerEquation

SpecDynamics == Init /\ [][NextDynamics]_vars

-----------------------------------------------------------------------------
(* Gaussian fit *)

(* np.sqrt of a perfect square *)
Sqrt(x) == CHOOSE r \in 0..x : r * r = x

(* the diagonals (cov[0][0], cov[1][1]) of the covariance of a fit *)
Covariances == {<<1, 4>>, <<0, 9>>}

(* what one invocation of scipy.optimize.curve_fit does: it raises         *)
(* RuntimeError when the least squares do not converge, else it returns    *)
(* the parameters (a, b), fitted against the indices 0..n-1, and their     *)
(* covariance                                                              *)
NotConverged == [converged |-> FALSE, a |-> 0, b |-> 0, cov |-> <<0, 0>>]

FitOutcomes ==
    {NotConverged}
    \cup [converged : {TRUE}, a : 1..MaxFitValue, b : 1..MaxFitValue,
          cov : Covariances]

(* what a second invocation would do: only a fit that retries sees it      *)
SecondOutcomes ==
    {NotConverged, [converged |-> TRUE, a |-> 1, b |-> 1, cov |-> <<1, 4>>]}

(* the invocation of curve_fit on the indices of the times *)
curve_fit(times, outcome) ==
    [fn |-> "curve_fit", xdata |-> [i \in 1..times.n |-> i - 1],
     outcome |-> outcome]

(* what get_gaussian_fit returns given what curve_fit did: curve_fit       *)
(* raises TypeError for fewer points than the 2 parameters                 *)
gaussian_fit_result(times, outcome) ==
    IF times.n < 2 THEN Raise("TypeError")
    ELSE IF ~outcome.converged THEN Raise("RuntimeError")
    ELSE LET fit_A == outcome.a
             fit_B == outcome.b
             dt == Times(times)[2]
         IN  Ok(<<fit_A, Sqrt(outcome.cov[1]), fit_B * dt,
                  Sqrt(outcome.cov[2]) * dt>>)

(* get_gaussian_fit trying the optimizer a second time when the first      *)
(* attempt does not converge: the result and the invocations made          *)
get_gaussian_fit_retry(values, outcomes) ==
    IF values.basis.n >= 2 /\ ~outcomes[1].converged
    THEN [ret |-> gaussian_fit_result(values.basis, outcomes[2]),
          calls |-> <<curve_fit(values.basis, outcomes[1]),
                      curve_fit(values.basis, outcomes[2])>>]
    ELSE [ret |-> gaussian_fit_result(values.basis, outcomes[1]),
          calls |-> <<curve_fit(values.basis, outcomes[1])>>]

(* get_gaussian_fit: the result and the invocations of the optimizer made, *)
(* outcomes[k] being what the k-th invocation would do                     *)
get_gaussian_fit(values, outcomes) ==
    [ret |-> gaussian_fit_result(values.basis, outcomes[1]),
     calls |-> <<curve_fit(values.basis, outcomes[1])>>]

GetGaussianFit ==
    \E times \in TimeGrids, first \in FitOutcomes, second \in SecondOutcomes :
        LET values == [basis |-> times]
            fit == get_gaussian_fit(values, <<first, second>>)
        IN  /\ Idle
            /\ op' = "get_gaussian_fit"
            /\ args' = [values |-> values]
            /\ ret' = fit.ret
            /\ calls' = fit.calls
            /\ heap' = call_effect(heap, Passed(values))
            /\ UNCHANGED <<system, config, lastPotential>>

(* get_gaussian_fit takes neither a system nor a config: its calls are     *)
(* followed from one system and one config                                 *)
InitFit ==
    /\ Init
    /\ system = HYDROGEN_NICKEL_SYSTEM
    /\ config = [shape |-> 1, resolution |-> 1, n_bands |-> 1,
                 temperature |-> 155]

NextFit ==
    \/ Return
    \/ GetGaussianFit

SpecFit == InitFit /\ [][NextFit]_vars

-----------------------------------------------------------------------------
(* The Caldeira-Leggett operator *)

(* convert_potential_to_position_basis transforms the potential to the     *)
(* sites of the position basis.  For a basis of no site the transform is   *)
(* decided outside this repository, so both outcomes are followed.         *)
ConversionOutcomes(shape, resolution, rejected) ==
    IF shape = 0 /\ resolution # 0 /\ ~rejected THEN BOOLEAN ELSE {FALSE}

(* the conversion of the potential, when its outcome is open *)
conversion_calls(shape, resolution, rejected, failed) ==
    IF shape = 0 /\ resolution # 0 /\ ~rejected
    THEN <<[fn |-> "convert_potential_to_position_basis", step |-> shape,
            raised |-> failed]>>
    ELSE <<>>

(* the separation of sites i and j without the wrap around the ring *)
cl_separation_unwrapped(i, j, size_position) == i - j

(* (i - j + size_position // 2) % size_position - size_position // 2 *)
cl_separation(i, j, size_position) ==
    ((i - j + (size_position \div 2)) % size_position) - (size_position \div 2)

(* an entry of np.zeros *)
ClZero == [written |-> FALSE, lower |-> 0, upper |-> 0, separation |-> 0]

(* matrix[i][j]: the potential at the samples int((i + j) / 2) and         *)
(* int((i + j + 1) / 2), and the square of the separation                  *)
cl_entry(i, j, size_position) ==
    [written |-> TRUE,
     lower |-> (i + j) \div 2,
     upper |-> (i + j + 1) \div 2,
     separation |-> cl_separation(i, j, size_position)]

(* the sites of a matrix of size_position rows, counted from 0 *)
ClSites(size_position) == 0..(size_position - 1)

(* the pairs (i, j) the loops for i in range(size_position): for j in      *)
(* range(i + 1) go through                                                 *)
cl_iterations(size_position) ==
    {it \in ClSites(size_position) \X ClSites(size_position) : it[2] <= it[1]}

(* the matrix after the loops: the pair (i, j) computes matrix[i][j] and   *)
(* copies it to matrix[j][i]; an entry no pair writes stays an entry of    *)
(* np.zeros                                                                *)
cl_matrix(size_position) ==
    [p \in ClSites(size_position) \X ClSites(size_position) |->
        LET it == IF p[2] <= p[1] THEN p ELSE <<p[2], p[1]>>
        IN  IF it \in cl_iterations(size_position)
            THEN cl_entry(it[1], it[2], size_position)
            ELSE ClZero]

(* data[k] of an array of size_position samples raises for k out of range *)
cl_index_error(matrix, size_position) ==
    \E p \in DOMAIN matrix :
        /\ matrix[p].written
        /\ \/ matrix[p].lower \notin ClSites(size_position)
           \/ matrix[p].upper \notin ClSites(size_position)

(* get_cl_operator after the potential is converted; x_spacing is (a, b)   *)
(* for a * sqrt(3) / b                                                     *)
cl_operator_data(s, c, basis) ==
    LET size_position == basis.n
        matrix == cl_matrix(size_position)
    IN  IF cl_index_error(matrix, size_position) THEN Raise("IndexError")
        ELSE Ok([basis |-> <<basis, basis>>,
                 data |-> matrix,
                 x_spacing |-> <<s.lattice_constant, 2 * c.resolution>>,
                 m |-> s.mass,
                 temperature |-> c.temperature])

(* get_cl_operator *)
get_cl_operator(s, c, rejected, failed) ==
    LET e == extended_potential_error(c.shape, c.resolution, rejected)
        potential == get_extended_interpolated_potential(s, c.shape, c.resolution)
        basis == stacked_basis_as_fundamental_position_basis(potential.basis)
    IN  IF e # "" THEN Raise(e)
        ELSE IF failed THEN Raise("ValueError")
        ELSE cl_operator_data(s, c, basis)

GetClOperator ==
    \E rejected \in ZeroStepOutcomes(config.shape, config.resolution) :
      \E failed \in ConversionOutcomes(config.shape, config.resolution, rejected) :
        /\ Idle
        /\ op' = "get_cl_operator"
        /\ args' = <<>>
        /\ ret' = get_cl_operator(system, config, rejected, failed)
        /\ calls' = basis_calls(config.shape, config.resolution, rejected)
                    \o conversion_calls(config.shape, config.resolution,
                                        rejected, failed)
        /\ heap' = call_effect(heap, NoObject)
        /\ UNCHANGED <<system, config, lastPotential>>

NextOperator ==
    \/ NewSystem
    \/ NewConfig
    \/ Return
    \/ GetClOperator

SpecOperator == Init /\ [][NextOperator]_vars

-----------------------------------------------------------------------------
(* Every call *)

(* the caller takes one of the presets of the module for its next calls *)
UsePreset ==
    /\ Idle
    /\ \E name \in PresetNames : system' = heap.presets[name]
    /\ op' = "none"
    /\ args' = <<>>
    /\ ret' = NoResult
    /\ calls' = <<>>
    /\ UNCHANGED <<config, lastPotential, heap>>

(* the configs of a caller that works with the presets: no cell or two,   *)
(* no point, one point (fewer than the bands) or three points per cell     *)
CallConfigs ==
    [shape : {0, 2}, resolution : {0, 1, 3}, n_bands : {2},
     temperature : Temperatures]

(* the caller takes another of its configs for its next calls *)
UseConfig ==
    /\ Idle
    /\ config' \in CallConfigs
    /\ op' = "none"
    /\ args' = <<>>
    /\ ret' = NoResult
    /\ calls' = <<>>
    /\ UNCHANGED <<system, lastPotential, heap>>

(* the state after construction of a caller that works with the presets *)
InitPresets ==
    /\ \E name \in PresetNames : system = Presets[name]
    /\ config \in CallConfigs
    /\ op = "none"
    /\ args = <<>>
    /\ ret = NoResult
    /\ calls = <<>>
    /\ lastPotential = NoPotential
    /\ heap = [presets |-> Presets, passed |-> NoObject]

Next ==
    \/ UsePreset
    \/ UseConfig
    \/ Return
    \/ GetPotential
    \/ GetInterpolatedPotential
    \/ GetExtendedInterpolatedPotential
    \/ GetBlochWavefunctions
    \/ GetHamiltonian
    \/ SolveSchrodingerEquation
    \/ GetStepState
    \/ GetGaussianState
    \/ GetClOperator
    \/ GetGaussianFit

Spec == InitPresets /\ [][Next]_vars

-----------------------------------------------------------------------------
(* Properties of the potential builder *)

(* the potential of get_interpolated_potential(system, resolution), taken  *)
(* back to the 3 plane waves of get_potential                              *)
RoundTrip == convert_potential_to_basis(ret.value, get_potential(system).basis)

(* C3 as stated: the round trip gives the coefficients of get_potential    *)
C3_RoundTripIsIdentity ==
    (Returned("get_interpolated_potential") /\ args.resolution >= 1)
        => SameValues(RoundTrip, get_potential(system))

(* C3, amended: for a resolution of at least 3 the round trip gives each   *)
(* coefficient of get_potential multiplied by sqrt(resolution[0] / 3), so  *)
(* the coefficients themselves only for a resolution of 3 (or a barrier of *)
(* 0)                                                                      *)
C3_RoundTripIsScaled ==
    (Returned("get_interpolated_potential") /\ args.resolution >= 3)
        => LET back == RoundTrip
               orig == get_potential(system)
           IN  /\ Len(back.data) = PotentialN
               /\ \A i \in 1..PotentialN :
                    /\ Sign(back.data[i]) = Sign(orig.data[i])
                    /\ back.data[i] * back.data[i] * back.num * orig.den * 3
                         = orig.data[i] * orig.data[i] * orig.num * back.den
                             * args.resolution
               /\ (SameValues(back, orig)
                     <=> (args.resolution = 3 \/ system.barrier_energy = 0))

C3_Witness ==
    /\ Returned("get_interpolated_potential")
    /\ args.resolution > 3
    /\ system.barrier_energy > 0
    /\ ~SameValues(RoundTrip, get_potential(system))

(* C9: get_potential returns the spacing sqrt(3) * lattice_constant / 2 on *)
(* 3 points and the coefficients barrier_energy * sqrt(3) / 4 * [2,-1,-1], *)
(* and a call returns what the call before it returned whenever the two    *)
(* systems have the same barrier_energy and lattice_constant, whatever     *)
(* their id and mass and whatever was called in between                    *)
C9_PotentialIsPure ==
    lastPotential.called =>
        LET v == lastPotential.value
            s == lastPotential.system
        IN  /\ v.basis.delta_x = <<s.lattice_constant, 2>>
            /\ v.basis.n = 3
            /\ Len(v.data) = 3
            /\ \A i \in 1..3 :
                 /\ Sign(v.data[i]) = <<1, -1, -1>>[i] * Sign(s.barrier_energy)
                 /\ 16 * v.data[i] * v.data[i] * v.num
                      = 3 * v.den * <<4, 1, 1>>[i]
                          * s.barrier_energy * s.barrier_energy
            /\ (lastPotential.before.seen => v = lastPotential.before.value)
            /\ (op = "get_potential" => ret = Ok(v))

C9_Witness ==
    /\ op = "get_potential"
    /\ lastPotential.called
    /\ lastPotential.before.seen
    /\ lastPotential.before.other_system
    /\ lastPotential.system.barrier_energy > 0

-----------------------------------------------------------------------------
(* Properties of the state sampler *)

PositionSites == config.shape * config.resolution

(* C2: for a fraction in [0, 1] the step state has exactly its first       *)
(* int(fraction * N) sites non-zero with one common amplitude and its      *)
(* squared amplitudes sum to 1; for None, site 0 alone is 1                *)
C2_StepStateIsNormalized ==
    (Returned("get_step_state") /\ PositionSites > 0) =>
        LET v == ret.value
            f == args.fraction
            k == IF f.is_none THEN 1 ELSE IntOfProduct(f, PositionSites)
        IN  (~f.is_none => f.p <= f.q) =>
              /\ Len(v.data) = PositionSites
              /\ \A i \in 1..PositionSites :
                   /\ (i <= k => v.data[i] # 0 /\ v.data[i] = v.data[1])
                   /\ (i > k => v.data[i] = 0)
              /\ SquaredNorm(v)[1] = SquaredNorm(v)[2]
              /\ (f.is_none => v.data[1] * v.data[1] * v.num = v.den)

(* the gaussian state has unit norm: every entry is a float and the sum    *)
(* dividing them is not zero                                               *)
GaussianIsNormalized(v) ==
    /\ ~v.normalization_is_zero
    /\ \A i \in 1..Len(v.data) : v.data[i].float \in {"finite", "zero"}

(* exp(-x) <= exp(-y) for the exponents x and y *)
NotAbove(x, y) == x[1] * y[2] >= y[1] * x[2]

(* C6: for a fraction > 0 the gaussian state has unit norm and its         *)
(* amplitude at site i is proportional to                                  *)
(* exp(-(i - N/2)^2 / (2 (fraction N)^2)): it never increases as           *)
(* |i - N/2| grows                                                         *)
C6_GaussianIsNormalized ==
    (Returned("get_gaussian_state") /\ PositionSites > 0) =>
        LET v == ret.value
            f == args.fraction
            N == PositionSites
        IN  /\ Len(v.data) = N
            /\ GaussianIsNormalized(v)
            /\ \A i \in 1..N :
                 v.data[i].x[1] * 2 * f.p * f.p * N * N * 4
                    = v.data[i].x[2] * (2 * (i - 1) - N) * (2 * (i - 1) - N)
                        * f.q * f.q
            /\ \A i, j \in 1..N :
                 Abs(2 * (i - 1) - N) >= Abs(2 * (j - 1) - N)
                    => NotAbove(v.data[i].x, v.data[j].x)

-----------------------------------------------------------------------------
(* Properties of the Bloch wavefunctions and of the time evolution *)

(* the squared norm of a complex vector divided by den is                  *)
(* ComplexSquaredNorm / den                                                *)
ComplexSquaredNorm(data) == SumSeq([k \in 1..Len(data) |-> CAbs2(data[k])])

InitialStateIsNormalized ==
    ComplexSquaredNorm(args.initial_state.bloch) = args.initial_state.den

(* the part of the squared norm of the initial state carried by the        *)
(* n_bands lowest bands, times den                                         *)
KeptSquaredNorm ==
    SumSeq([k \in 1..(config.n_bands * config.shape) |->
               CAbs2(args.initial_state.bloch[k])])

(* C1 as stated: every state returned by solve_schrodinger_equation has    *)
(* norm 1 when the initial state has                                       *)
C1_NormIsOne ==
    (Returned("solve_schrodinger_equation") /\ InitialStateIsNormalized) =>
        \A i \in 1..Len(ret.value.data) :
            ComplexSquaredNorm(ret.value.data[i]) = ret.value.den

(* C1, amended: the states returned have the same norm at every time, the  *)
(* norm of the part of the initial state in the n_bands lowest bands of    *)
(* every sample: it is at most 1, and it is 1 when n_bands =               *)
(* resolution[0]                                                           *)
C1_NormIsKeptPart ==
    (Returned("solve_schrodinger_equation") /\ InitialStateIsNormalized) =>
        /\ ret.value.den = args.initial_state.den
        /\ \A i \in 1..Len(ret.value.data) :
             /\ ComplexSquaredNorm(ret.value.data[i]) = KeptSquaredNorm
             /\ ComplexSquaredNorm(ret.value.data[i]) <= ret.value.den
             /\ (config.n_bands = config.resolution =>
                    ComplexSquaredNorm(ret.value.data[i]) = ret.value.den)

C1_Witness ==
    /\ Returned("solve_schrodinger_equation")
    /\ InitialStateIsNormalized
    /\ config.n_bands < config.resolution
    /\ Len(ret.value.data) >= 2
    /\ ComplexSquaredNorm(ret.value.data[2]) > 0
    /\ ComplexSquaredNorm(ret.value.data[2]) < ret.value.den
    /\ ret.value.data[2] # ret.value.data[1]

(* C5 as stated: one state per time, each in the basis of initial_state    *)
C5_StatesInInitialBasis ==
    Returned("solve_schrodinger_equation") =>
        /\ Len(ret.value.data) = args.times.n
        /\ ret.value.basis[2] = args.initial_state.basis

(* C5, amended: one state per time of the grid, in grid order, each with   *)
(* n_bands * shape[0] coefficients in the basis of the eigenstates of the  *)
(* Hamiltonian, not in the position basis of initial_state                 *)
C5_StatesInEigenBasis ==
    Returned("solve_schrodinger_equation") =>
        /\ Len(ret.value.data) = args.times.n
        /\ ret.value.basis[1] = args.times
        /\ ret.value.basis[2].kind = "explicit"
        /\ ret.value.basis[2].n = config.n_bands * config.shape
        /\ args.initial_state.basis.kind = "position"
        /\ args.initial_state.basis.n = config.shape * config.resolution
        /\ \A i \in 1..args.times.n :
             /\ Len(ret.value.data[i]) = config.n_bands * config.shape
             /\ \A k \in 1..(config.n_bands * config.shape) :
                  LET t == args.times.offset + args.times.step * (i - 1)
                      band == (k - 1) \div config.shape
                      sample == (k - 1) % config.shape
                      e == (band * config.shape + sample)
                             * (band * config.shape + sample)
                  IN  ret.value.data[i][k]
                        = CMul(args.initial_state.bloch[k], QuarterPhase(e * t))

C5_Witness ==
    /\ Returned("solve_schrodinger_equation")
    /\ args.times.n >= 2
    /\ args.times.offset # 0
    /\ ret.value.basis[2].n < args.initial_state.basis.n
    /\ ret.value.data[1] # ret.value.data[2]

(* C10: get_bloch_wavefunctions builds one Hamiltonian per sample of a     *)
(* grid of shape[0] samples, each for one unit cell at config.resolution   *)
(* with the bloch fraction of the sample, and keeps for every sample the   *)
(* bands 0..n_bands-1, so n_bands * shape[0] eigenstates                   *)
C10_LowestBandsPerSample ==
    Returned("get_bloch_wavefunctions") =>
        /\ Len(calls) = config.shape
        /\ \A i \in 1..config.shape :
             /\ calls[i].shape = 1
             /\ calls[i].resolution = config.resolution
             /\ calls[i].bloch_fraction = <<i - 1, config.shape>>
        /\ Len(ret.value.states) = config.n_bands * config.shape
        /\ \A sample \in 0..(config.shape - 1) :
             {ret.value.states[k].band :
                 k \in {j \in 1..Len(ret.value.states) :
                           ret.value.states[j].sample = sample}}
               = 0..(config.n_bands - 1)
        /\ \A k \in 1..Len(ret.value.states) :
             /\ ret.value.states[k].sample \in 0..(config.shape - 1)
             /\ ret.value.states[k].cell = calls[ret.value.states[k].sample + 1]

C10_Witness ==
    /\ Returned("get_bloch_wavefunctions")
    /\ config.shape >= 2
    /\ config.n_bands >= 2
    /\ config.resolution > config.n_bands
    /\ Len(ret.value.states) = config.n_bands * config.shape

-----------------------------------------------------------------------------
(* Properties of the gaussian fit *)

(* the spacing of the grid, times[i+1] - times[i] *)
Spacing(times) == Times(times)[2] - Times(times)[1]

(* C4: on a grid of at least 2 points the decay time and its standard      *)
(* error are the values fitted in index units multiplied by the spacing of *)
(* the grid, the amplitude and its standard error are unscaled             *)
C4_DecayTimeScaledBySpacing ==
    (Returned("get_gaussian_fit") /\ args.values.basis.n >= 2) =>
        LET fitted == calls[1].outcome
            spacing == Spacing(args.values.basis)
        IN  /\ ret.value[1] = fitted.a
            /\ ret.value[2] * ret.value[2] = fitted.cov[1]
            /\ ret.value[3] = fitted.b * spacing
            /\ ret.value[4] = Sqrt(fitted.cov[2]) * spacing

(* C8: get_gaussian_fit invokes the optimizer exactly once, and when the   *)
(* optimizer does not converge the call ends in that error: no retry, no   *)
(* second guess, no tuple of defaults                                      *)
C8_SingleAttempt ==
    op = "get_gaussian_fit" =>
        /\ Len(calls) = 1
        /\ calls[1].fn = "curve_fit"
        /\ (~calls[1].outcome.converged => ret.status = "error")
        /\ ((~calls[1].outcome.converged /\ args.values.basis.n >= 2)
               => ret = Raise("RuntimeError"))
        /\ (ret.status = "ok" =>
               /\ calls[1].outcome.converged
               /\ ret.value[1] = calls[1].outcome.a)

C8_Witness ==
    /\ Raised("get_gaussian_fit")
    /\ args.values.basis.n >= 2
    /\ Len(calls) = 1
    /\ ~calls[1].outcome.converged
    /\ ret.error = "RuntimeError"

-----------------------------------------------------------------------------
(* Properties of every call *)

(* what a call can return or raise as the first call of a process, over    *)
(* the outcomes of the collaborators outside this repository               *)
FreshResults(name, s, c, a) ==
    CASE name = "get_potential" -> {Ok(get_potential(s))}
      [] name = "get_interpolated_potential" ->
            {Ok(get_interpolated_potential(s, a.resolution))}
      [] name = "get_extended_interpolated_potential" ->
            {LET e == extended_potential_error(a.shape, a.resolution, rejected)
             IN  IF e # "" THEN Raise(e)
                 ELSE Ok(get_extended_interpolated_potential(
                             s, a.shape, a.resolution)) :
                 rejected \in ZeroStepOutcomes(a.shape, a.resolution)}
      [] name = "get_bloch_wavefunctions" ->
            {IF bloch_error(c) # "" THEN Raise(bloch_error(c))
             ELSE Ok(get_bloch_wavefunctions(s, c))}
      [] name = "get_hamiltonian" ->
            {IF bloch_error(c) # "" THEN Raise(bloch_error(c))
             ELSE Ok(get_hamiltonian(s, c))}
      [] name = "solve_schrodinger_equation" ->
            {solve_schrodinger_equation(s, c, a.initial_state, a.times)}
      [] name = "get_step_state" ->
            {get_step_state(s, c, a.fraction, rejected) :
                 rejected \in ZeroStepOutcomes(c.shape, c.resolution)}
      [] name = "get_gaussian_state" ->
            {get_gaussian_state(s, c, a.fraction, rejected) :
                 rejected \in ZeroStepOutcomes(c.shape, c.resolution)}
      [] name = "get_cl_operator" ->
            {get_cl_operator(s, c, rejected, failed) :
                 rejected \in BOOLEAN, failed \in BOOLEAN}
      [] name = "get_gaussian_fit" ->
            {get_gaussian_fit(a.values, <<first, second>>).ret :
                 first \in FitOutcomes, second \in SecondOutcomes}

(* the object the caller passed by reference is what the caller passed *)
PassedIsAsPassed ==
    CASE op = "solve_schrodinger_equation" ->
            heap.passed = Passed(args.initial_state)
      [] op = "get_gaussian_fit" -> heap.passed = Passed(args.values)
      [] OTHER -> heap.passed = NoObject

(* a step that is a call of a function of system.py *)
IsCall == op = "none" /\ op' # "none"

(* C11: a call of any function of system.py, after any calls before it,    *)
(* leaves its system and its config, the presets of the module and the     *)
(* initial_state or values passed to it as they were, and returns or       *)
(* raises what the same call does as the first call of a process           *)
C11_CallsLeaveNoTrace ==
    [][IsCall =>
          /\ system' = system
          /\ config' = config
          /\ heap'.presets = heap.presets
          /\ heap'.presets = Presets
          /\ PassedIsAsPassed'
          /\ ret' \in FreshResults(op', system', config', args')]_vars

C11_Witness ==
    /\ Returned("solve_schrodinger_equation")
    /\ system = SODIUM_COPPER_SYSTEM
    /\ heap.passed = Passed(args.initial_state)
    /\ lastPotential.called
    /\ lastPotential.before.seen
    /\ lastPotential.system # system

-----------------------------------------------------------------------------
(* Properties of the Caldeira-Leggett operator *)

(* C12: for a position basis of N >= 1 sites get_cl_operator returns, all  *)
(* N * N entries are assigned, entry (i, j) equals entry (j, i), and for   *)
(* j <= i the separation has absolute value min(i - j, N - (i - j)) and    *)
(* the two potential samples are sites in 0..N-1                           *)
C12_PeriodicSeparation ==
    (op = "get_cl_operator" /\ PositionSites >= 1) =>
        /\ ret.status = "ok"
        /\ LET N == PositionSites
               matrix == ret.value.data
           IN  /\ DOMAIN matrix = ClSites(N) \X ClSites(N)
               /\ \A i \in ClSites(N) : \A j \in ClSites(N) :
                    /\ matrix[<<i, j>>].written
                    /\ matrix[<<i, j>>] = matrix[<<j, i>>]
                    /\ (j <= i =>
                          /\ Abs(matrix[<<i, j>>].separation)
                                 = Min(i - j, N - (i - j))
                          /\ matrix[<<i, j>>].lower \in ClSites(N)
                          /\ matrix[<<i, j>>].upper \in ClSites(N))

C12_Witness ==
    /\ Returned("get_cl_operator")
    /\ PositionSites >= 3
    /\ PositionSites % 2 = 1
    /\ ret.value.data[<<PositionSites - 1, 0>>].separation = -1
    /\ ret.value.data[<<0, PositionSites - 1>>].written

====
